---- MODULE Spec2Model ----
(***************************************************************************)
(* A model of src/server.js: the refresh pipeline that polls the upstream  *)
(* statistics API, derives rank / history / session / season metrics and   *)
(* publishes them into the in-memory CACHE read by GET /widget.json.       *)
(*                                                                         *)
(* Four specifications share the module:                                   *)
(*   Spec         the event loop: startup, the periodic timer, every await *)
(*                of refresh() as a suspension point, and the reader;      *)
(*   SpecSession  computeSessionByGap applied to bounded lists of facts;   *)
(*   SpecPct      pctInt applied to bounded pairs (w, g);                  *)
(*   SpecHistory  lines 199-240 applied to bounded lists of fetched        *)
(*                matches.                                                 *)
(***************************************************************************)
EXTENDS Integers, Sequences, FiniteSets, TLC

VARIABLES
    CACHE,              \* let CACHE = { updatedAt, data, error }
    cycles,             \* the invocations of refresh(): position and locals
    started,            \* how many times refresh() has been called
    mainPc,             \* position of the module's top-level code
    timerArmed,         \* setInterval(refresh, ...) has run
    listening,          \* app.listen(...) has run
    response,           \* the last body sent by GET /widget.json
    DDRAGON_VERSION,    \* let DDRAGON_VERSION
    lastDdragonCheck,   \* let lastDdragonCheck
    now,                \* Date.now(), counted in polling periods
    log,                \* the cycles in the order they completed
    matchParts,         \* SpecSession: the argument of computeSessionByGap
    gapIn,              \* SpecSession: the gap threshold in force
    sessionOut,         \* SpecSession: what the call computed
    pctW,               \* SpecPct: argument w
    pctG,               \* SpecPct: argument g
    pctOut,             \* SpecPct: pctInt(w, g)
    histIds,            \* SpecHistory: the ids the match-id request returned
    histWorld,          \* SpecHistory: what the matches behind the ids hold
    histOut             \* SpecHistory: the facts and the snapshot built

vars == <<CACHE, cycles, started, mainPc, timerArmed, listening, response,
          DDRAGON_VERSION, lastDdragonCheck, now, log,
          matchParts, gapIn, sessionOut, pctW, pctG, pctOut,
          histIds, histWorld, histOut>>

refreshVars == <<CACHE, cycles, started, mainPc, timerArmed, listening, response,
                 DDRAGON_VERSION, lastDdragonCheck, now, log>>
sessionVars == <<matchParts, gapIn, sessionOut>>
pctVars == <<pctW, pctG, pctOut>>
histVars == <<histIds, histWorld, histOut>>

(***************************************************************************)
(* Bounds of the model.                                                    *)
(***************************************************************************)
MaxCycles == 3      \* calls of refresh() explored (the initial one included)
MaxMatches == 2     \* longest match-id list the upstream returns
DdragonTtl == 2     \* the 12 h between version checks, in polling periods
MaxParts == 3       \* SpecSession: longest list of facts
MaxGap == 1         \* SpecSession: largest gap threshold
MaxCalls == 2       \* SpecSession: calls of computeSessionByGap on one list
MaxG == 40          \* SpecPct: largest g
MaxIds == 17        \* SpecHistory: longest match-id list the upstream returns

(***************************************************************************)
(* Values.  null is a record of its own, so that it compares with records; *)
(* an absent number (null / undefined) is the integer Absent.              *)
(***************************************************************************)
Null == [null |-> TRUE]
Absent == -1

HISTORY_COUNT == 10
FETCH_COUNT == 16
SESSION_GAP_MINUTES == 60
RIOT_RANK_QUEUE == "RANKED_SOLO_5x5"
RIOT_GAME_NAME == "Player"
RIOT_TAG_LINE == "EUW"
RIOT_PLATFORM_ROUTING == "euw1"
PUUID == "puuid-1"

Range(seq) == {seq[i] : i \in 1..Len(seq)}

Min(a, b) == IF a < b THEN a ELSE b
Max(a, b) == IF a > b THEN a ELSE b

(***************************************************************************)
(* IEEE-754 binary64 arithmetic, as far as pctInt and the kda need it.  A  *)
(* positive double is [hi, mid, lo, e]: its 53-bit significand is          *)
(* M = hi * 2^36 + mid * 2^18 + lo with 2^16 <= hi < 2^17, and its value   *)
(* is M * 2^(e - 52).  The limbs keep every product below 2^31.            *)
(***************************************************************************)
Limb == 262144          \* 2^18
HiOne == 65536          \* 2^16, the leading bit of hi

Pow2(n) == IF n <= 0 THEN 1 ELSE 2 ^ n

\* round to nearest, ties to even: up says that the discarded part is above
\* one half, tie that it is exactly one half, exact that it is zero
RoundNearestEven(hi, mid, lo, e, up, tie, exact) ==
    IF up \/ (tie /\ lo % 2 = 1)
    THEN LET lo1 == (lo + 1) % Limb
             c1 == (lo + 1) \div Limb
             mid1 == (mid + c1) % Limb
             c2 == (mid + c1) \div Limb
             hi1 == hi + c2
         IN  IF hi1 = 2 * HiOne
             THEN [hi |-> HiOne, mid |-> 0, lo |-> 0, e |-> e + 1, dir |-> 1]
             ELSE [hi |-> hi1, mid |-> mid1, lo |-> lo1, e |-> e, dir |-> 1]
    ELSE [hi |-> hi, mid |-> mid, lo |-> lo, e |-> e, dir |-> IF exact THEN 0 ELSE -1]

\* the double nearest to a / b, for integers 1 <= a, b < 2^12; dir is the
\* sign of (the double - a / b)
RECURSIVE ExpDown(_, _, _)
ExpDown(a, b, s) == IF a * Pow2(s) >= b THEN s ELSE ExpDown(a, b, s + 1)
RECURSIVE ExpUp(_, _, _)
ExpUp(a, b, s) == IF a < b * Pow2(s + 1) THEN s ELSE ExpUp(a, b, s + 1)

DoubleDiv(a, b) ==
    LET e == IF a >= b THEN ExpUp(a, b, 0) ELSE 0 - ExpDown(a, b, 1)
        num == IF a >= b THEN a ELSE a * Pow2(0 - e)
        den == IF a >= b THEN b * Pow2(e) ELSE b
        \* long division of num * 2^52 by den, 16 + 18 + 18 bits at a time
        hi == (num * HiOne) \div den
        r2 == (num * HiOne) % den
        mid == (r2 * Limb) \div den
        r1 == (r2 * Limb) % den
        lo == (r1 * Limb) \div den
        r0 == (r1 * Limb) % den
    IN  RoundNearestEven(hi, mid, lo, e, 2 * r0 > den, 2 * r0 = den, r0 = 0)

\* the double nearest to x * 100
DoubleMul100(x) ==
    LET p0 == 100 * x.lo
        p1 == 100 * x.mid + p0 \div Limb
        p2 == 100 * x.hi + p1 \div Limb
        q0 == p0 % Limb
        q1 == p1 % Limb
        \* 100 * M has 59 or 60 bits: s of them are discarded
        s == IF p2 >= 128 * HiOne THEN 7 ELSE 6
        d == Pow2(s)
        hi == p2 \div d
        mid == q1 \div d + (p2 % d) * (Limb \div d)
        lo == q0 \div d + (q1 % d) * (Limb \div d)
        rest == q0 % d
    IN  RoundNearestEven(hi, mid, lo, x.e + s, 2 * rest > d, 2 * rest = d, rest = 0)

\* Math.round(x) for a positive double below 2^15: floor(x + 1/2), exactly
MathRound(x) ==
    IF x.e < -1 THEN 0
    ELSE (x.hi + Pow2(15 - x.e)) \div Pow2(16 - x.e)

\* a rendering that cuts the digits after the first instead of rounding
ToFixed1Truncated(a, b) ==
    LET n == (10 * a) \div b
    IN  <<n \div 10, n % 10>>

\* (a / b).toFixed(1) for integers a >= 0, b >= 1, as the pair <<i, d>> read
\* "i.d": the n with n / 10 nearest to the double a / b, the larger on a tie
ToFixed1(a, b) ==
    LET n0 == (10 * a) \div b
        r2 == 2 * ((10 * a) % b)
        n == IF a = 0 THEN 0
             ELSE IF r2 < b THEN n0
             ELSE IF r2 > b THEN n0 + 1
             ELSE IF DoubleDiv(a, b).dir < 0 THEN n0 ELSE n0 + 1
    IN  <<n \div 10, n % 10>>

(***************************************************************************)
(* HELPERS                                                                 *)
(***************************************************************************)
\* String.prototype.toUpperCase on the strings that occur
ToUpperCase(s) ==
    CASE s = "euw1" -> "EUW1"
      [] s = "eun1" -> "EUN1"
      [] s = "na1" -> "NA1"
      [] s = "kr" -> "KR"
      [] OTHER -> s

platformToRegionShort(platform) ==
    CASE platform = "euw1" -> "EUW"
      [] platform = "eun1" -> "EUNE"
      [] platform = "na1" -> "NA"
      [] platform = "kr" -> "KR"
      [] OTHER -> ToUpperCase(platform)

\* a search that returns the last element satisfying the test
FindQueueLast(entries, queue) ==
    IF \E i \in 1..Len(entries) : entries[i].queueType = queue
    THEN entries[CHOOSE i \in 1..Len(entries) :
                    /\ entries[i].queueType = queue
                    /\ \A j \in (i+1)..Len(entries) : entries[j].queueType # queue]
    ELSE Null

\* a lookup that falls back on the first participant
FindParticipantOrFirst(participants, puuid) ==
    IF \E i \in 1..Len(participants) : participants[i].puuid = puuid
    THEN participants[CHOOSE i \in 1..Len(participants) :
                         /\ participants[i].puuid = puuid
                         /\ \A j \in 1..(i-1) : participants[j].puuid # puuid]
    ELSE participants[1]

\* Array.prototype.find: the first element satisfying the test, or null
FindQueue(entries, queue) ==
    IF \E i \in 1..Len(entries) : entries[i].queueType = queue
    THEN entries[CHOOSE i \in 1..Len(entries) :
                    /\ entries[i].queueType = queue
                    /\ \A j \in 1..(i-1) : entries[j].queueType # queue]
    ELSE Null

pickRank(entries) ==
    LET e == FindQueue(entries, RIOT_RANK_QUEUE)
    IN  IF e = Null
        THEN [queue |-> RIOT_RANK_QUEUE, tier |-> "UNRANKED", rank |-> "",
              lp |-> 0, wins |-> 0, losses |-> 0]
        ELSE [queue |-> RIOT_RANK_QUEUE, tier |-> e.tier, rank |-> e.rank,
              lp |-> e.leaguePoints, wins |-> e.wins, losses |-> e.losses]

pctInt(w, g) ==
    IF g = 0 THEN 0
    ELSE IF w = 0 THEN 0
    ELSE MathRound(DoubleMul100(DoubleDiv(w, g)))

Default0(v) == IF v = Absent THEN 0 ELSE v

FindParticipant(participants, puuid) ==
    IF \E i \in 1..Len(participants) : participants[i].puuid = puuid
    THEN participants[CHOOSE i \in 1..Len(participants) :
                         /\ participants[i].puuid = puuid
                         /\ \A j \in 1..(i-1) : participants[j].puuid # puuid]
    ELSE Null

extractParticipant(match, puuid) ==
    LET info == match.info
        p == FindParticipant(info.participants, puuid)
    IN  IF p = Null THEN Null
        ELSE [championName |-> p.championName,
              win |-> p.win,
              kills |-> Default0(p.kills),
              deaths |-> Default0(p.deaths),
              assists |-> Default0(p.assists),
              gameStart |-> info.gameStartTimestamp,
              gameEnd |-> info.gameEndTimestamp]

\* Array.prototype.sort with a comparator (a, b) => key(b) - key(a): stable,
\* descending by key; key[i] is the key of seq[i]
StableSortDesc(seq, key) ==
    LET n == Len(seq)
        pos(i) == 1 + Cardinality({j \in 1..n : key[j] > key[i]})
                    + Cardinality({j \in 1..(i-1) : key[j] = key[i]})
    IN  [p \in 1..n |-> seq[CHOOSE i \in 1..n : pos(i) = p]]

\* a filter that looks at the start alone
IsTimedByStart(x) == x # Null /\ x.gameStart # Absent

\* line 138
IsTimed(x) == x # Null /\ x.gameStart # Absent /\ x.gameEnd # Absent

SessionItems(parts) ==
    LET f == SelectSeq(parts, IsTimed)
    IN  StableSortDesc(f, [i \in 1..Len(f) |-> f[i].gameStart])

\* a comparison that also cuts at a gap equal to the threshold
GapExceedsOrEquals(newer, older, gapMs) == newer.gameStart - older.gameEnd >= gapMs

\* the for loop of computeSessionByGap, i 0-based as in the source
GapExceeds(newer, older, gapMs) == newer.gameStart - older.gameEnd > gapMs

RECURSIVE CutoffFrom(_, _, _)
CutoffFrom(items, i, gapMs) ==
    IF ~(i < Len(items) - 1) THEN Len(items)
    ELSE IF GapExceeds(items[i + 1], items[i + 2], gapMs) THEN i + 1
    ELSE CutoffFrom(items, i + 1, gapMs)

\* a loop that sets cutoff = i + 2
SessionCutoffLate(items, gapMs) ==
    LET c == CutoffFrom(items, 0, gapMs)
    IN  IF c < Len(items) THEN c + 1 ELSE c

SessionCutoff(items, gapMs) == CutoffFrom(items, 0, gapMs)

SessionSlice(parts, gapMs) ==
    LET items == SessionItems(parts)
    IN  SubSeq(items, 1, SessionCutoff(items, gapMs))

RECURSIVE SumOver(_, _, _)
SumOver(session, i, acc) ==
    IF i > Len(session) THEN acc
    ELSE LET m == session[i]
         IN  SumOver(session, i + 1,
                [wins |-> acc.wins + (IF m.win THEN 1 ELSE 0),
                 losses |-> acc.losses + (IF m.win THEN 0 ELSE 1),
                 k |-> acc.k + m.kills,
                 d |-> acc.d + m.deaths,
                 a |-> acc.a + m.assists])

computeSessionByGap(parts, gapMs) ==
    LET items == SessionItems(parts)
        session == SessionSlice(parts, gapMs)
        s == SumOver(session, 1, [wins |-> 0, losses |-> 0, k |-> 0, d |-> 0, a |-> 0])
    IN  IF Len(items) = 0
        THEN [wins |-> 0, losses |-> 0, games |-> 0, kda |-> <<0, 0>>,
              kills |-> 0, deaths |-> 0, assists |-> 0]
        ELSE [wins |-> s.wins, losses |-> s.losses, games |-> s.wins + s.losses,
              kda |-> ToFixed1(s.k + s.a, Max(1, s.d)),
              kills |-> s.k, deaths |-> s.d, assists |-> s.a]

badgeForTier(tier) ==
    LET t == ToUpperCase(tier)
    IN  CASE t = "EMERALD" -> "https://i.ibb.co/rfMcq5Qq/6.png"
          [] t = "DIAMOND" -> "https://i.ibb.co/pvByFtMv/7.png"
          [] t = "MASTER" -> "https://i.ibb.co/TB9d8r7K/Master.webp"
          [] OTHER -> ""

champIconUrl(championName) ==
    "https://ddragon.leagueoflegends.com/cdn/" \o DDRAGON_VERSION
        \o "/img/champion/" \o championName \o ".png"

(***************************************************************************)
(* The upstream API, as far as a refresh sees it.  A match id determines   *)
(* its match; the list of recent ids is the n most recent, newest first.   *)
(***************************************************************************)
Other == [puuid |-> "puuid-2", championName |-> "Garen", win |-> FALSE,
          kills |-> 1, deaths |-> 1, assists |-> 1]

Player(id) == [puuid |-> PUUID,
               championName |-> IF id % 2 = 1 THEN "Ahri" ELSE "Lux",
               win |-> id % 2 = 1,
               kills |-> 2 * id + 1,
               deaths |-> IF id % 2 = 1 THEN Absent ELSE id,
               assists |-> id]

RawMatch(id) ==
    [info |-> [participants |-> IF id % 3 = 0 THEN <<Other>> ELSE <<Other, Player(id)>>,
               gameStartTimestamp |-> id * id * 2000000,
               gameEndTimestamp |-> id * id * 2000000 + 1500000]]

RecentIds(n) == [i \in 1..n |-> n - i + 1]

SoloEntry == [queueType |-> "RANKED_SOLO_5x5", tier |-> "GOLD", rank |-> "II",
              leaguePoints |-> 55, wins |-> 40, losses |-> 38]
FlexEntry == [queueType |-> "RANKED_FLEX_SR", tier |-> "SILVER", rank |-> "I",
              leaguePoints |-> 10, wins |-> 3, losses |-> 5]
SoloLater == [queueType |-> "RANKED_SOLO_5x5", tier |-> "PLATINUM", rank |-> "IV",
              leaguePoints |-> 0, wins |-> 1, losses |-> 1]
EntriesPool == { <<>>, <<FlexEntry>>, <<FlexEntry, SoloEntry>>,
                 <<FlexEntry, SoloEntry, SoloLater>> }

AccountResponses == {"ok", "nopuuid", "error"}
OkOrError == {"ok", "error"}

ErrAccount == [message |-> "HTTP 500 for account"]
ErrNoPuuid == [message |-> "Account lookup failed (no puuid)."]
ErrEntries == [message |-> "HTTP 500 for entries"]
ErrMatchIds == [message |-> "HTTP 500 for match ids"]
ErrMatch == [message |-> "HTTP 500 for match"]

(***************************************************************************)
(* CACHE and refresh()                                                     *)
(***************************************************************************)
Cycles == 1..MaxCycles
InFlight == {"ddragon", "account", "entries", "matchIds", "matches"}

\* startData is a history field: CACHE.data as it was when the cycle began
IdleCycle == [pc |-> "idle", rank |-> Null, ids |-> <<>>, fetch |-> <<>>,
              error |-> Null, startData |-> Null]

Running(c) == cycles[c].pc \in InFlight
Succeeded(c) == cycles[c].pc = "done" /\ cycles[c].error = Null
Failed(c) == cycles[c].pc = "done" /\ cycles[c].error # Null

\* a history that keeps the order in which the matches were fetched
SortedPartsAsFetched(parts) == parts

\* lines 200-211: the facts of the fetched matches, sorted in place for lastN
ExtractParts(detailed) ==
    LET all == [i \in 1..Len(detailed) |-> extractParticipant(detailed[i], PUUID)]
        IsPart(x) == x # Null
    IN  SelectSeq(all, IsPart)

SortedParts(parts) ==
    StableSortDesc(parts, [i \in 1..Len(parts) |->
                              IF parts[i].gameStart = Absent THEN 0 ELSE parts[i].gameStart])

LastN(sorted) ==
    LET top == SubSeq(sorted, 1, Min(Len(sorted), HISTORY_COUNT))
    IN  [i \in 1..Len(top) |-> [championName |-> top[i].championName,
                                championIcon |-> champIconUrl(top[i].championName),
                                win |-> top[i].win]]

\* a display that always joins tier and division
RankDisplayJoined(rank) == rank.tier \o " " \o rank.rank

\* line 221
RankDisplay(rank) ==
    IF rank.tier = "UNRANKED" THEN "UNRANKED" ELSE rank.tier \o " " \o rank.rank

\* a session computed over the facts shown in the history
SessionInputShown(parts) == SubSeq(parts, 1, Min(Len(parts), HISTORY_COUNT))

\* line 211: what computeSessionByGap is called with, parts as line 203 left it
SessionInput(parts) == parts

\* lines 213-240: the object assigned to CACHE.data
Snapshot(rank, detailed, t) ==
    LET seasonGames == rank.wins + rank.losses
        seasonWinrateInt == pctInt(rank.wins, seasonGames)
        parts == SortedParts(ExtractParts(detailed))
        session == computeSessionByGap(SessionInput(parts), SESSION_GAP_MINUTES * 60 * 1000)
    IN  [updatedAt |-> t,
         player |-> [riotId |-> RIOT_GAME_NAME \o "#" \o RIOT_TAG_LINE,
                     region |-> platformToRegionShort(RIOT_PLATFORM_ROUTING)],
         rank |-> [queue |-> rank.queue, tier |-> rank.tier, rank |-> rank.rank,
                   lp |-> rank.lp, wins |-> rank.wins, losses |-> rank.losses,
                   display |-> RankDisplay(rank),
                   badge |-> badgeForTier(rank.tier)],
         matchHistory |-> [lastN |-> LastN(parts), count |-> HISTORY_COUNT],
         session |-> session,
         season |-> [games |-> seasonGames, winrate |-> seasonWinrateInt,
                     wins |-> rank.wins, losses |-> rank.losses]]

\* a publish that forgets line 242
PublishCacheKeepsError(cache, snapshot, t) ==
    [updatedAt |-> t, data |-> snapshot, error |-> cache.error]

\* a publish that updates the previous object field by field and misses one
PublishCacheInPlace(cache, snapshot, t) ==
    [updatedAt |-> t,
     data |-> IF cache.data = Null THEN snapshot
              ELSE [snapshot EXCEPT !.session = cache.data.session],
     error |-> Null]

\* lines 213, 242, 243: the cache after a successful cycle
PublishCache(cache, snapshot, t) ==
    [updatedAt |-> t, data |-> snapshot, error |-> Null]

\* a catch that records no error
CatchCacheSilent(cache, e, t) ==
    [updatedAt |-> t, data |-> cache.data, error |-> Null]

\* lines 245, 246: the cache after a failed cycle
CatchCache(cache, e, t) ==
    [updatedAt |-> t, data |-> cache.data, error |-> e]

Detailed(ids) == [i \in 1..Len(ids) |-> RawMatch(ids[i])]

\* the cycle ends: its write to CACHE, and its place in the order of completion
Publish(c, ids) ==
    /\ CACHE' = PublishCache(CACHE, Snapshot(cycles[c].rank, Detailed(ids), now), now)
    /\ log' = Append(log, c)

Catch(c, e) ==
    /\ CACHE' = CatchCache(CACHE, e, now)
    /\ log' = Append(log, c)

\* refresh() is called: it runs up to its first pending upstream call
CallRefresh(c, t) ==
    LET recent == t - lastDdragonCheck < DdragonTtl
    IN  /\ cycles[c].pc = "idle"
        /\ started' = c
        /\ lastDdragonCheck' = IF recent THEN lastDdragonCheck ELSE t
        /\ cycles' = [cycles EXCEPT ![c] =
                         [@ EXCEPT !.pc = IF recent THEN "account" ELSE "ddragon",
                                   !.startData = CACHE.data]]

\* line 250: await refresh()
InitialRefresh ==
    /\ mainPc = "start"
    /\ CallRefresh(1, now)
    /\ mainPc' = "awaitRefresh"
    /\ UNCHANGED <<CACHE, timerArmed, listening, response, DDRAGON_VERSION, now, log>>
    /\ UNCHANGED <<sessionVars, pctVars, histVars>>

\* refresh() called without await
InitialRefreshNotAwaited == TRUE

\* the top-level await lets the module go on
InitialRefreshSettled == cycles[1].pc = "done"

\* lines 251-721: setInterval, the routes, app.listen
MainResume ==
    /\ mainPc = "awaitRefresh"
    /\ InitialRefreshSettled
    /\ mainPc' = "done"
    /\ timerArmed' = TRUE
    /\ listening' = TRUE
    /\ UNCHANGED <<CACHE, cycles, started, response, DDRAGON_VERSION,
                   lastDdragonCheck, now, log>>
    /\ UNCHANGED <<sessionVars, pctVars, histVars>>

\* a timer that is cleared when a cycle leaves an error
TimerStopsOnError == timerArmed /\ CACHE.error = Null

\* whether the timer's callback may call refresh() now
TimerMayFire == timerArmed

\* line 251: one more polling period has passed and the callback runs
TimerTick ==
    /\ TimerMayFire
    /\ started < MaxCycles
    /\ now' = now + 1
    /\ CallRefresh(started + 1, now + 1)
    /\ UNCHANGED <<CACHE, mainPc, timerArmed, listening, response, DDRAGON_VERSION, log>>
    /\ UNCHANGED <<sessionVars, pctVars, histVars>>

\* lines 57-60: the versions request returns; its failure is swallowed
DdragonReturn(c, r) ==
    /\ cycles[c].pc = "ddragon"
    /\ DDRAGON_VERSION' = IF r = "ok" THEN "15.1.1" ELSE DDRAGON_VERSION
    /\ cycles' = [cycles EXCEPT ![c].pc = "account"]
    /\ UNCHANGED <<CACHE, started, mainPc, timerArmed, listening, response,
                   lastDdragonCheck, now, log>>
    /\ UNCHANGED <<sessionVars, pctVars, histVars>>

\* an account lookup without line 190
AccountErrorUnchecked(r) == IF r = "error" THEN ErrAccount ELSE Null

\* lines 189-190: what the account lookup throws, null if it gives a puuid
AccountError(r) ==
    IF r = "ok" THEN Null
    ELSE IF r = "nopuuid" THEN ErrNoPuuid
    ELSE ErrAccount

\* lines 189-190
AccountReturn(c, r) ==
    /\ cycles[c].pc = "account"
    /\ LET e == AccountError(r)
       IN  IF e = Null
           THEN /\ cycles' = [cycles EXCEPT ![c].pc = "entries"]
                /\ UNCHANGED <<CACHE, log>>
           ELSE /\ cycles' = [cycles EXCEPT ![c].pc = "done", ![c].error = e]
                /\ Catch(c, e)
    /\ UNCHANGED <<started, mainPc, timerArmed, listening, response,
                   DDRAGON_VERSION, lastDdragonCheck, now>>
    /\ UNCHANGED <<sessionVars, pctVars, histVars>>

\* lines 192-196
EntriesReturn(c, r, entries) ==
    /\ cycles[c].pc = "entries"
    /\ IF r = "ok"
       THEN /\ cycles' = [cycles EXCEPT ![c].pc = "matchIds", ![c].rank = pickRank(entries)]
            /\ UNCHANGED <<CACHE, log>>
       ELSE /\ cycles' = [cycles EXCEPT ![c].pc = "done", ![c].error = ErrEntries]
            /\ Catch(c, ErrEntries)
    /\ UNCHANGED <<started, mainPc, timerArmed, listening, response,
                   DDRAGON_VERSION, lastDdragonCheck, now>>
    /\ UNCHANGED <<sessionVars, pctVars, histVars>>

\* lines 198-199: the id list returns and the match requests go out together
MatchIdsReturn(c, r, n) ==
    /\ cycles[c].pc = "matchIds"
    /\ IF r = "ok"
       THEN LET all == RecentIds(n)
                ids == SubSeq(all, 1, Min(Len(all), FETCH_COUNT))
            IN  IF Len(ids) = 0
                THEN /\ cycles' = [cycles EXCEPT ![c].pc = "done"]
                     /\ Publish(c, ids)
                ELSE /\ cycles' = [cycles EXCEPT ![c].pc = "matches", ![c].ids = ids,
                                      ![c].fetch = [i \in 1..Len(ids) |-> "pending"]]
                     /\ UNCHANGED <<CACHE, log>>
       ELSE /\ cycles' = [cycles EXCEPT ![c].pc = "done", ![c].error = ErrMatchIds]
            /\ Catch(c, ErrMatchIds)
    /\ UNCHANGED <<started, mainPc, timerArmed, listening, response,
                   DDRAGON_VERSION, lastDdragonCheck, now>>
    /\ UNCHANGED <<sessionVars, pctVars, histVars>>

\* Promise.all: the first rejection rejects it; it resolves when all have
AllSettled(fetch, i, r) ==
    \A j \in 1..Len(fetch) : IF j = i THEN r = "ok" ELSE fetch[j] = "ok"

\* lines 199-247: one match request returns
MatchReturn(c, i, r) ==
    /\ cycles[c].pc \in {"matches", "done"}
    /\ i \in 1..Len(cycles[c].fetch)
    /\ cycles[c].fetch[i] = "pending"
    /\ IF cycles[c].pc = "done"
       THEN \* the cycle has ended: the result is dropped
            /\ cycles' = [cycles EXCEPT ![c].fetch[i] = r]
            /\ UNCHANGED <<CACHE, log>>
       ELSE IF r = "error"
       THEN /\ cycles' = [cycles EXCEPT ![c].fetch[i] = r, ![c].pc = "done",
                                        ![c].error = ErrMatch]
            /\ Catch(c, ErrMatch)
       ELSE IF AllSettled(cycles[c].fetch, i, r)
       THEN /\ cycles' = [cycles EXCEPT ![c].fetch[i] = r, ![c].pc = "done"]
            /\ Publish(c, cycles[c].ids)
       ELSE /\ cycles' = [cycles EXCEPT ![c].fetch[i] = r]
            /\ UNCHANGED <<CACHE, log>>
    /\ UNCHANGED <<started, mainPc, timerArmed, listening, response,
                   DDRAGON_VERSION, lastDdragonCheck, now>>
    /\ UNCHANGED <<sessionVars, pctVars, histVars>>

\* a handler whose ok looks at the snapshot alone
WidgetJsonOkIgnoresError(cache) ==
    LET ok == cache.data # Null
        d == cache.data
    IN  IF d = Null THEN [ok |-> ok, error |-> cache.error, updatedAt |-> cache.updatedAt]
        ELSE [ok |-> ok, error |-> cache.error, updatedAt |-> cache.updatedAt,
              player |-> d.player, rank |-> d.rank, matchHistory |-> d.matchHistory,
              session |-> d.session, season |-> d.season]

\* line 258: the body of the response
WidgetJson(cache) ==
    LET ok == cache.data # Null /\ cache.error = Null
        head == [ok |-> ok, error |-> cache.error, updatedAt |-> cache.updatedAt]
        d == cache.data
    IN  IF d = Null THEN head
        ELSE [ok |-> ok, error |-> cache.error, updatedAt |-> cache.updatedAt,
              player |-> d.player, rank |-> d.rank, matchHistory |-> d.matchHistory,
              session |-> d.session, season |-> d.season]

\* lines 256-259: GET /widget.json
GetWidgetJson ==
    /\ listening
    /\ response' = WidgetJson(CACHE)
    /\ UNCHANGED <<CACHE, cycles, started, mainPc, timerArmed, listening,
                   DDRAGON_VERSION, lastDdragonCheck, now, log>>
    /\ UNCHANGED <<sessionVars, pctVars, histVars>>

RefreshInit ==
    /\ CACHE = [updatedAt |-> 0, data |-> Null, error |-> Null]
    /\ cycles = [c \in Cycles |-> IdleCycle]
    /\ started = 0
    /\ mainPc = "start"
    /\ timerArmed = FALSE
    /\ listening = FALSE
    /\ response = Null
    /\ DDRAGON_VERSION = "14.1.1"
    /\ lastDdragonCheck = 0
    /\ now = DdragonTtl      \* startup is long after the epoch
    /\ log = <<>>

SessionIdle == matchParts = <<>> /\ gapIn = 0 /\ sessionOut = Null
PctIdle == pctW = 0 /\ pctG = 0 /\ pctOut = Absent
HistIdle == histIds = <<>> /\ histWorld = Null /\ histOut = Null

Init == RefreshInit /\ SessionIdle /\ PctIdle /\ HistIdle

Next ==
    \/ InitialRefresh
    \/ MainResume
    \/ TimerTick
    \/ \E c \in Cycles, r \in OkOrError : DdragonReturn(c, r)
    \/ \E c \in Cycles, r \in AccountResponses : AccountReturn(c, r)
    \/ \E c \in Cycles, r \in OkOrError, entries \in EntriesPool : EntriesReturn(c, r, entries)
    \/ \E c \in Cycles, r \in OkOrError, n \in 0..MaxMatches : MatchIdsReturn(c, r, n)
    \/ \E c \in Cycles, i \in 1..MaxMatches, r \in OkOrError : MatchReturn(c, i, r)
    \/ GetWidgetJson

Spec == Init /\ [][Next]_vars

(***************************************************************************)
(* SpecSession: computeSessionByGap on every list of at most MaxParts      *)
(* facts of FactPool, under every threshold up to MaxGap.                  *)
(***************************************************************************)
StartTimes == {0, 1, 3, 6}

\* a win is 3/0/1; a loss is 1/3/1, and 2/20/1 for the match started at 3, so
\* that the ratios of the sessions are integers (6/3), halves of a tenth
\* that no double holds (7/20, 11/20) and others (2/3, 5/23)
Fact(start, end, win) ==
    [championName |-> "Ahri", win |-> win,
     kills |-> IF win THEN 3 ELSE IF start = 3 THEN 2 ELSE 1,
     deaths |-> IF win THEN 0 ELSE IF start = 3 THEN 20 ELSE 3,
     assists |-> 1,
     gameStart |-> start, gameEnd |-> end]

\* facts with both timestamps, won or lost; won ones without the end, and
\* won ones without the start
FactPool ==
    {Fact(s, s + 1, w) : s \in StartTimes, w \in BOOLEAN}
    \cup {Fact(s, Absent, TRUE) : s \in StartTimes}
    \cup {Fact(Absent, e, TRUE) : e \in {Absent, 2}}

FactLists == UNION {[1..n -> FactPool] : n \in 0..MaxParts}

SessionInit ==
    /\ matchParts \in FactLists
    /\ gapIn \in 0..MaxGap
    /\ sessionOut = Null

\* a function that sorts the array it is given, as line 203 does with parts
ArgumentSortedInPlace(parts) == SortedParts(parts)

\* lines 137-139, 154: the argument after the call.  filter returns a new
\* array, sort reorders that one, slice copies again; no element is written
ArgumentAfterCall(parts) == parts

\* one call computeSessionByGap(matchParts): the slice it aggregates and its
\* result; given and first are history fields, the argument and the result
\* of the first call
ComputeSession ==
    /\ IF sessionOut = Null THEN TRUE ELSE sessionOut.calls < MaxCalls
    /\ sessionOut' =
          [session |-> SessionSlice(matchParts, gapIn),
           summary |-> computeSessionByGap(matchParts, gapIn),
           calls |-> IF sessionOut = Null THEN 1 ELSE sessionOut.calls + 1,
           given |-> IF sessionOut = Null THEN matchParts ELSE sessionOut.given,
           first |-> IF sessionOut = Null THEN computeSessionByGap(matchParts, gapIn)
                     ELSE sessionOut.first]
    /\ matchParts' = ArgumentAfterCall(matchParts)
    /\ UNCHANGED gapIn
    /\ UNCHANGED <<refreshVars, pctVars, histVars>>

InitSession == RefreshInit /\ SessionInit /\ PctIdle /\ HistIdle
NextSession == ComputeSession
SpecSession == InitSession /\ [][NextSession]_vars

(***************************************************************************)
(* SpecPct: pctInt on every pair 0 <= w <= g <= MaxG.                      *)
(***************************************************************************)
PctInit ==
    /\ pctG \in 0..MaxG
    /\ pctW \in 0..pctG
    /\ pctOut = Absent

ComputePct ==
    /\ pctOut = Absent
    /\ pctOut' = pctInt(pctW, pctG)
    /\ UNCHANGED <<pctW, pctG>>
    /\ UNCHANGED <<refreshVars, sessionVars, histVars>>

InitPct == RefreshInit /\ SessionIdle /\ PctInit /\ HistIdle
NextPct == ComputePct
SpecPct == InitPct /\ [][NextPct]_vars

(***************************************************************************)
(* SpecHistory: lines 199-240 on the matches behind a list of up to MaxIds *)
(* ids.  Match id starts at 2,000,000 * id ms and lasts 1,500,000 ms; the  *)
(* world says after which id a long pause follows, which matches were      *)
(* played by others only, and which carry no start timestamp.              *)
(***************************************************************************)
ChampionNames ==
    << "Aatrox", "Ahri", "Akali", "Alistar", "Amumu", "Anivia", "Annie", "Ashe",
       "Bard", "Brand", "Braum", "Caitlyn", "Camille", "Corki", "Darius", "Diana",
       "Draven", "Ekko", "Elise", "Ezreal" >>

\* one champion per match, so that a history entry tells its match
ChampionOf(id) == ChampionNames[((id - 1) % Len(ChampionNames)) + 1]

HistPlayer(id) == [puuid |-> PUUID, championName |-> ChampionOf(id),
                   win |-> id % 2 = 1, kills |-> id, deaths |-> 1, assists |-> 2]

HistStart(id, w) == id * 2000000 + (IF id > w.breakAt THEN 4000000 ELSE 0)

HistByOthers(id, w) == w.strangers # 0 /\ id % w.strangers = 0
HistUntimed(id, w) == w.untimed # 0 /\ id % w.untimed = 1

HistMatch(id, w) ==
    [info |-> [participants |-> IF HistByOthers(id, w) THEN <<Other>>
                                ELSE <<Other, HistPlayer(id)>>,
               gameStartTimestamp |-> IF HistUntimed(id, w) THEN Absent
                                      ELSE HistStart(id, w),
               gameEndTimestamp |-> HistStart(id, w) + 1500000]]

\* the orders in which the ids 1..n come back: newest first, oldest first,
\* and newest first rotated by three
HistOrders(n) ==
    { [i \in 1..n |-> n - i + 1],
      [i \in 1..n |-> i],
      [i \in 1..n |-> n - ((i + 2) % n)] }

HistWorlds == [breakAt : {0, 2, 5}, strangers : {0, 3}, untimed : {0, 4}]

HistInit ==
    /\ histIds \in UNION {HistOrders(n) : n \in 0..MaxIds}
    /\ histWorld \in HistWorlds
    /\ histOut = Null

\* lines 199-240 with every match request answered
BuildHistory ==
    /\ histOut = Null
    /\ LET ids == SubSeq(histIds, 1, Min(Len(histIds), FETCH_COUNT))
           detailed == [i \in 1..Len(ids) |-> HistMatch(ids[i], histWorld)]
       IN  histOut' = [fetched |-> ids,
                       data |-> Snapshot(pickRank(<<>>), detailed, 0)]
    /\ UNCHANGED <<histIds, histWorld>>
    /\ UNCHANGED <<refreshVars, sessionVars, pctVars>>

InitHistory == RefreshInit /\ SessionIdle /\ PctIdle /\ HistInit
NextHistory == BuildHistory
SpecHistory == InitHistory /\ [][NextHistory]_vars

(***************************************************************************)
(* What the claims speak of.                                               *)
(***************************************************************************)
LastDone == log[Len(log)]

\* the last cycle that published a snapshot, 0 if none did
LastGood ==
    LET good == {i \in 1..Len(log) : Succeeded(log[i])}
    IN  IF good = {} THEN 0
        ELSE log[CHOOSE i \in good : \A j \in good : j <= i]

HistoryView(lastN) ==
    [i \in 1..Len(lastN) |-> [championName |-> lastN[i].championName, win |-> lastN[i].win]]

\* the fields of a snapshot (or of a response carrying one) that a cycle's
\* upstream answers determine
View(d) ==
    [player |-> d.player, rank |-> d.rank, history |-> HistoryView(d.matchHistory.lastN),
     session |-> d.session, season |-> d.season]

\* the same fields, built from what cycle c received
Built(c) == View(Snapshot(cycles[c].rank, Detailed(cycles[c].ids), 0))

HasSnapshot(r) == "rank" \in DOMAIN r

InitialCache == [updatedAt |-> 0, data |-> Null, error |-> Null]

\* this step is the end of cycle c and writes its snapshot
Publishes(c) ==
    /\ cycles[c].pc # "done"
    /\ cycles'[c].pc = "done"
    /\ cycles'[c].error = Null

HasQueue(entries) == \E i \in 1..Len(entries) : entries[i].queueType = RIOT_RANK_QUEUE

\* SpecHistory: the fetched ids whose match holds the player, and those of
\* them whose match has both timestamps
HistMine == {id \in Range(histOut.fetched) : ~HistByOthers(id, histWorld)}
HistTimed == {id \in HistMine : ~HistUntimed(id, histWorld)}

\* the ids of the session: a later id is a later start, so the session is
\* made of the ids of HistTimed with no long pause between them and the
\* newest
HistSession ==
    LET next(id) == CHOOSE a \in HistTimed : a > id /\ \A b \in HistTimed : b > id => a <= b
        pause(id) == /\ \E a \in HistTimed : a > id
                     /\ HistStart(next(id), histWorld) - (HistStart(id, histWorld) + 1500000)
                            > SESSION_GAP_MINUTES * 60 * 1000
    IN  {id \in HistTimed : \A b \in HistTimed : b >= id => ~pause(b)}

\* the ids of the matches shown in the history, in the order shown
HistShown ==
    LET lastN == histOut.data.matchHistory.lastN
    IN  [j \in 1..Len(lastN) |->
            CHOOSE id \in 1..(MaxIds + 1) : ChampionOf(id) = lastN[j].championName]

\* the sum of f[1], ..., f[n]
RECURSIVE Total(_, _)
Total(f, n) == IF n = 0 THEN 0 ELSE f[n] + Total(f, n - 1)

Abs(x) == IF x < 0 THEN 0 - x ELSE x

(***************************************************************************)
(* C1.  Refresh cycles never overlap: in every reachable state at most one *)
(* run of refresh() is in flight.                                          *)
(***************************************************************************)
C1_NoOverlap == Cardinality({c \in Cycles : Running(c)}) <= 1

(***************************************************************************)
(* C2.  When a refresh cycle fails, CACHE.data after the cycle is exactly  *)
(* what it was before the cycle and CACHE.error is the cycle's error.      *)
(***************************************************************************)
C2_FailureKeepsData ==
    (log # <<>> /\ Failed(LastDone)) =>
        /\ CACHE.data = cycles[LastDone].startData
        /\ CACHE.error = cycles[LastDone].error

(***************************************************************************)
(* C3.  When a refresh cycle succeeds, the cache afterwards holds the      *)
(* snapshot built by that cycle, whole, and CACHE.error is null: no state  *)
(* has the new snapshot together with the error of an earlier cycle.       *)
(***************************************************************************)
C3_PublishWholeAndClear ==
    (log # <<>> /\ Succeeded(LastDone)) =>
        /\ CACHE.data # Null
        /\ View(CACHE.data) = Built(LastDone)
        /\ CACHE.error = Null

C3_Witness ==
    /\ Len(log) >= 2
    /\ Failed(log[Len(log) - 1])
    /\ Succeeded(LastDone)
    /\ CACHE.data.rank.tier = "GOLD"
    /\ CACHE.error = Null

(***************************************************************************)
(* C4.  A read by GET /widget.json, wherever it falls between the steps of *)
(* the refresh cycles, observes the complete snapshot of one cycle: rank,  *)
(* matchHistory, session and season never come from two cycles.            *)
(***************************************************************************)
C4_ReaderSeesOneCycle ==
    /\ CACHE.data # Null =>
          \E c \in Cycles : Succeeded(c) /\ View(CACHE.data) = Built(c)
    /\ (response # Null /\ HasSnapshot(response)) =>
          \E c \in Cycles : Succeeded(c) /\ View(response) = Built(c)

C4_Witness ==
    /\ response # Null
    /\ HasSnapshot(response)
    /\ CACHE.data # Null
    /\ View(response) # View(CACHE.data)
    /\ \E c \in Cycles : Running(c)

(***************************************************************************)
(* C5.  The initial refresh runs once at startup and has completed before  *)
(* the timer is armed and before any read is served: no reader observes    *)
(* the cache as it was before the first cycle.                             *)
(***************************************************************************)
C5_InitialRefreshFirst ==
    /\ (mainPc = "start") = (started = 0)
    /\ mainPc = "awaitRefresh" => started = 1
    /\ (timerArmed \/ listening \/ response # Null \/ started > 1) =>
          /\ cycles[1].pc = "done"
          /\ CACHE # InitialCache
          /\ CACHE.updatedAt # 0
    /\ response # Null =>
          /\ response.updatedAt # 0
          /\ (HasSnapshot(response) \/ response.error # Null)

C5_Witness ==
    /\ listening
    /\ timerArmed
    /\ response # Null
    /\ started = 1

(***************************************************************************)
(* C6.  A read made while the last completed refresh is a failed one       *)
(* returns ok = false with that cycle's error and, if some earlier cycle   *)
(* succeeded, the fields of the last published snapshot; ok = true is      *)
(* returned only when a snapshot exists and no error is recorded.          *)
(***************************************************************************)
C6_ReadAfterFailure ==
    [][GetWidgetJson =>
         /\ (log # <<>> /\ Failed(LastDone)) =>
               /\ response'.ok = FALSE
               /\ response'.error = cycles[LastDone].error
               /\ LastGood # 0 =>
                     /\ HasSnapshot(response')
                     /\ View(response') = Built(LastGood)
         /\ response'.ok =>
               /\ HasSnapshot(response')
               /\ response'.error = Null
               /\ CACHE.data # Null
               /\ CACHE.error = Null]_vars

C6_Witness ==
    /\ log # <<>>
    /\ Failed(LastDone)
    /\ LastGood # 0
    /\ response # Null
    /\ response.ok = FALSE
    /\ response.error = cycles[LastDone].error
    /\ HasSnapshot(response)
    /\ View(response) = Built(LastGood)

(***************************************************************************)
(* C7.  If one of the concurrently requested match details fails, the      *)
(* cycle fails: CACHE.error is set, CACHE.data stays as it was before the  *)
(* cycle, and the results of the other requests, arriving later, leave the *)
(* cache alone.                                                            *)
(***************************************************************************)
C7_MatchFailureAbortsCycle ==
    \A c \in Cycles :
        (\E i \in 1..Len(cycles[c].fetch) : cycles[c].fetch[i] = "error") =>
            /\ Failed(c)
            /\ cycles[c].error = ErrMatch
            /\ (log # <<>> /\ LastDone = c) =>
                  /\ CACHE.error = ErrMatch
                  /\ CACHE.data = cycles[c].startData

(***************************************************************************)
(* C8.  The facts computeSessionByGap aggregates are a contiguous prefix   *)
(* of the timestamped input sorted by start descending, and inside that    *)
(* prefix no newer.start - older.end exceeds the threshold.                *)
(***************************************************************************)
Count(seq, x) == Cardinality({i \in 1..Len(seq) : seq[i] = x})

C8_SessionIsGapFreePrefix ==
    sessionOut # Null =>
        LET s == sessionOut.session
            f == SelectSeq(matchParts, IsTimed)
        IN  /\ \A i \in 1..Len(s) : IsTimed(s[i]) /\ Count(s, s[i]) <= Count(f, s[i])
            /\ \A i \in 1..(Len(s) - 1) :
                  /\ s[i].gameStart >= s[i+1].gameStart
                  /\ s[i].gameStart - s[i+1].gameEnd <= gapIn
            \* what is left out is not newer than anything kept
            /\ \A j \in 1..Len(f) : Count(s, f[j]) < Count(f, f[j]) =>
                  \A i \in 1..Len(s) : f[j].gameStart <= s[i].gameStart
            /\ sessionOut.summary.games = Len(s)

C8_Witness ==
    /\ sessionOut # Null
    /\ Len(sessionOut.session) = 2
    /\ Len(SelectSeq(matchParts, IsTimed)) = 3
    /\ Len(matchParts) = 3
    /\ matchParts[1].gameStart < matchParts[3].gameStart
    /\ sessionOut.summary.games = 2

(***************************************************************************)
(* C9.  The session ends at the first index, in start-descending order,    *)
(* whose gap to the next exceeds the threshold; with no such gap it is the *)
(* whole filtered, sorted list.                                            *)
(***************************************************************************)
C9_BoundaryIsFirstExceedingGap ==
    sessionOut # Null =>
        LET items == SessionItems(matchParts)
            over == {i \in 1..(Len(items) - 1) :
                        items[i].gameStart - items[i+1].gameEnd > gapIn}
            n == IF over = {} THEN Len(items)
                 ELSE CHOOSE i \in over : \A j \in over : i <= j
        IN  /\ sessionOut.session = SubSeq(items, 1, n)
            /\ sessionOut.summary.games = n

C9_Witness ==
    /\ sessionOut # Null
    /\ Len(SessionItems(matchParts)) = 3
    /\ LET items == SessionItems(matchParts)
       IN  /\ items[1].gameStart - items[2].gameEnd > gapIn
           /\ items[2].gameStart - items[3].gameEnd > gapIn
    /\ Len(sessionOut.session) = 1
    /\ sessionOut.summary.games = 1

(***************************************************************************)
(* C10.  pctInt(w, g) is 0 when g = 0 and otherwise the integer nearest to *)
(* 100 * w / g, halves rounded up; for 0 <= w <= g it lies in 0..100.      *)
(***************************************************************************)
C10_PctIntRoundsHalfUp ==
    pctOut # Absent =>
        /\ pctOut = IF pctG = 0 THEN 0 ELSE (200 * pctW + pctG) \div (2 * pctG)
        /\ pctOut \in 0..100

(***************************************************************************)
(* C11.  The session kda is (kills + assists) / max(1, deaths) with one    *)
(* decimal digit, a tenth nearest to the ratio; with no death in the       *)
(* session it is kills + assists, and with no match in the session the     *)
(* summary is all zeros with kda "0.0".                                    *)
(***************************************************************************)
C11_KdaOneDecimal ==
    sessionOut # Null =>
        LET s == sessionOut.session
            sum == sessionOut.summary
            num == Total([i \in 1..Len(s) |-> s[i].kills + s[i].assists], Len(s))
            d == Total([i \in 1..Len(s) |-> s[i].deaths], Len(s))
            den == IF d = 0 THEN 1 ELSE d
            tenths == 10 * sum.kda[1] + sum.kda[2]
        IN  /\ sum.kda[1] \in Nat
            /\ sum.kda[2] \in 0..9
            /\ 2 * Abs(10 * num - tenths * den) <= den
            /\ d = 0 => sum.kda = <<num, 0>>
            /\ Len(s) = 0 =>
                  sum = [wins |-> 0, losses |-> 0, games |-> 0, kda |-> <<0, 0>>,
                         kills |-> 0, deaths |-> 0, assists |-> 0]

\* a win and the loss 2/20/1: the double nearest to 7 / 20 is below 0.35 and
\* is rendered "0.3"
C11_Witness ==
    /\ sessionOut # Null
    /\ Len(sessionOut.session) = 2
    /\ sessionOut.summary.kills + sessionOut.summary.assists = 7
    /\ sessionOut.summary.deaths = 20
    /\ sessionOut.summary.kda = <<0, 3>>

C13_RankedEntryPublished ==
    [][\A c \in Cycles :
         /\ \A entries \in EntriesPool :
               (EntriesReturn(c, "ok", entries) /\ HasQueue(entries)) =>
                  LET i == CHOOSE i \in 1..Len(entries) :
                              /\ entries[i].queueType = RIOT_RANK_QUEUE
                              /\ \A j \in 1..(i-1) : entries[j].queueType # RIOT_RANK_QUEUE
                      e == entries[i]
                  IN  cycles'[c].rank = [queue |-> RIOT_RANK_QUEUE, tier |-> e.tier,
                                         rank |-> e.rank, lp |-> e.leaguePoints,
                                         wins |-> e.wins, losses |-> e.losses]
         /\ (Publishes(c) /\ cycles[c].rank.tier # "UNRANKED") =>
               LET r == cycles[c].rank
                   d == CACHE'.data
               IN  /\ d.rank.tier = r.tier /\ d.rank.rank = r.rank /\ d.rank.lp = r.lp
                   /\ d.rank.wins = r.wins /\ d.rank.losses = r.losses
                   /\ d.rank.display = r.tier \o " " \o r.rank
                   /\ d.season.games = r.wins + r.losses
                   /\ d.season.winrate = pctInt(r.wins, r.wins + r.losses)
                   /\ (r.tier = "GOLD" /\ r.rank = "II" /\ r.wins = 40 /\ r.losses = 38) =>
                         /\ d.rank.display = "GOLD II"
                         /\ d.season.games = 78
                         /\ d.season.winrate = 51]_vars

C13_Witness ==
    /\ log # <<>>
    /\ Succeeded(LastDone)
    /\ cycles[LastDone].rank.tier = "GOLD"
    /\ CACHE.data.rank.display = "GOLD II"
    /\ CACHE.data.rank.lp = 55
    /\ CACHE.data.season.games = 78
    /\ CACHE.data.season.winrate = 51

(***************************************************************************)
(* C14.  When the rank entries are empty or hold no entry of the           *)
(* configured queue, the cycle goes on without an error and the snapshot   *)
(* it publishes carries the UNRANKED default: tier "UNRANKED", rank "",    *)
(* lp 0, wins 0, losses 0, display "UNRANKED", season.games 0 and          *)
(* season.winrate 0.                                                       *)
(***************************************************************************)
C14_UnrankedDefaultPublished ==
    [][\A c \in Cycles :
         /\ \A entries \in EntriesPool :
               (EntriesReturn(c, "ok", entries) /\ ~HasQueue(entries)) =>
                  /\ cycles'[c].pc = "matchIds"
                  /\ cycles'[c].error = Null
                  /\ CACHE' = CACHE
                  /\ cycles'[c].rank.tier = "UNRANKED"
         /\ (Publishes(c) /\ cycles[c].rank.tier = "UNRANKED") =>
               LET d == CACHE'.data
               IN  /\ CACHE'.error = Null
                   /\ d.rank.tier = "UNRANKED" /\ d.rank.rank = "" /\ d.rank.lp = 0
                   /\ d.rank.wins = 0 /\ d.rank.losses = 0
                   /\ d.rank.display = "UNRANKED"
                   /\ d.season.games = 0
                   /\ d.season.winrate = 0]_vars

C14_Witness ==
    /\ log # <<>>
    /\ Succeeded(LastDone)
    /\ cycles[LastDone].rank.tier = "UNRANKED"
    /\ CACHE.error = Null
    /\ CACHE.data.rank.display = "UNRANKED"
    /\ CACHE.data.rank.rank = ""
    /\ CACHE.data.season.games = 0
    /\ CACHE.data.season.winrate = 0
    /\ Len(CACHE.data.matchHistory.lastN) > 0

(***************************************************************************)
(* C15.  If the account lookup fails (an upstream error, or an answer      *)
(* without puuid), the cycle ends there with that error: it has issued no  *)
(* entries, match-id or match request and issues none afterwards, and it   *)
(* writes no snapshot, CACHE.data being left as the step found it.         *)
(***************************************************************************)
AccountErrors == {ErrAccount, ErrNoPuuid}

\* C15: the step of the failing lookup, and every step after it
C15_AccountFailureAborts ==
    [][\A c \in Cycles :
         /\ \A r \in AccountResponses \ {"ok"} :
               AccountReturn(c, r) =>
                  /\ cycles'[c].pc = "done"
                  /\ cycles'[c].error = (IF r = "nopuuid" THEN ErrNoPuuid ELSE ErrAccount)
                  /\ CACHE'.error = cycles'[c].error
                  /\ CACHE'.data = CACHE.data
                  /\ cycles'[c].rank = Null
                  /\ cycles'[c].ids = <<>>
                  /\ cycles'[c].fetch = <<>>
         \* once aborted, the cycle takes no further step
         /\ (Failed(c) /\ cycles[c].error \in AccountErrors) => cycles'[c] = cycles[c]]_vars

\* a cycle whose lookup gave no puuid, after a cycle that published
C15_Witness ==
    /\ log # <<>>
    /\ Failed(LastDone)
    /\ cycles[LastDone].error = ErrNoPuuid
    /\ cycles[LastDone].rank = Null
    /\ CACHE.error = ErrNoPuuid
    /\ CACHE.data # Null
    /\ \E c \in Cycles : c > LastDone /\ cycles[c].pc = "entries"

(***************************************************************************)
(* C16.  A fetched match without a participant record of the player is     *)
(* dropped without an error: the snapshot is built all the same, its       *)
(* history holds entries of the other matches only, and its session counts *)
(* the other matches only.                                                 *)
(***************************************************************************)
C16_MatchWithoutPlayerDropped ==
    histOut # Null =>
        LET lastN == histOut.data.matchHistory.lastN
            session == histOut.data.session
        IN  /\ Len(lastN) = Min(Cardinality(HistMine), HISTORY_COUNT)
            /\ \A j \in 1..Len(lastN) :
                  \E id \in HistMine : /\ lastN[j].championName = ChampionOf(id)
                                        /\ lastN[j].win = (id % 2 = 1)
            /\ session.games = Cardinality(HistSession)
            /\ session.wins = Cardinality({id \in HistSession : id % 2 = 1})
            /\ session.deaths = Cardinality(HistSession)
            /\ session.kills = Total([id \in 1..(MaxIds + 1) |->
                                        IF id \in HistSession THEN id ELSE 0], MaxIds + 1)

\* the matches 3, 6, ..., 15 of 16 were played by others: ten of the other
\* eleven are shown, and the seven after the pause make the session
C16_Witness ==
    /\ histOut # Null
    /\ histWorld.strangers = 3
    /\ histWorld.breakAt = 5
    /\ histWorld.untimed = 0
    /\ Len(histOut.fetched) = 16
    /\ histOut.fetched[1] = 16
    /\ Cardinality(HistMine) = 11
    /\ Len(histOut.data.matchHistory.lastN) = 10
    /\ histOut.data.session.games = 7

(***************************************************************************)
(* C17.  The history list is the first HISTORY_COUNT of the extracted      *)
(* facts sorted by start descending: it has at most HISTORY_COUNT entries, *)
(* each a different extracted fact, in non-increasing order of start, and  *)
(* no extracted fact left out starts later than one in the list.           *)
(***************************************************************************)
C17_HistoryIsNewestFirst ==
    histOut # Null =>
        LET shown == HistShown
            timed(id) == ~HistUntimed(id, histWorld)
            start(id) == HistStart(id, histWorld)
        IN  /\ Len(shown) <= HISTORY_COUNT
            /\ Len(shown) = Min(Cardinality(HistMine), HISTORY_COUNT)
            /\ \A j \in 1..Len(shown) : shown[j] \in HistMine
            /\ \A i, j \in 1..Len(shown) : i # j => shown[i] # shown[j]
            /\ \A i, j \in 1..Len(shown) :
                  (i < j /\ timed(shown[i]) /\ timed(shown[j])) =>
                      start(shown[i]) >= start(shown[j])
            /\ \A id \in HistMine \ Range(shown) : \A j \in 1..Len(shown) :
                  (timed(id) /\ timed(shown[j])) => start(id) <= start(shown[j])

\* sixteen matches fetched oldest first, every third one played by others:
\* the ten newest of the other eleven are shown, newest first
C17_Witness ==
    /\ histOut # Null
    /\ Len(histOut.fetched) = 16
    /\ histOut.fetched[1] = 1
    /\ histWorld.strangers = 3
    /\ Cardinality(HistMine) = 11
    /\ Len(HistShown) = 10
    /\ HistShown[1] = 16
    /\ HistShown[10] = 2

(***************************************************************************)
(* C18.  The session of a snapshot is computed over all the facts          *)
(* extracted in the cycle, up to FETCH_COUNT, not over the HISTORY_COUNT   *)
(* shown: its games are all the timestamped facts without a long pause     *)
(* between them and the newest, and they outnumber the history list when   *)
(* more than HISTORY_COUNT of them are.                                    *)
(***************************************************************************)
C18_SessionOverAllFacts ==
    histOut # Null =>
        LET session == histOut.data.session
            lastN == histOut.data.matchHistory.lastN
        IN  /\ Len(histOut.fetched) <= FETCH_COUNT
            /\ session.games = Cardinality(HistSession)
            /\ session.wins = Cardinality({id \in HistSession : id % 2 = 1})
            /\ session.losses = Cardinality({id \in HistSession : id % 2 = 0})
            /\ session.assists = 2 * Cardinality(HistSession)
            /\ Cardinality(HistSession) > HISTORY_COUNT => session.games > Len(lastN)

\* sixteen matches with the player and no long pause: 16 games, 10 shown
C18_Witness ==
    /\ histOut # Null
    /\ Len(histIds) = 17
    /\ Len(histOut.fetched) = 16
    /\ Cardinality(HistMine) = 16
    /\ Len(histOut.data.matchHistory.lastN) = 10
    /\ histOut.data.session.games = 16

(***************************************************************************)
(* C19.  A fact without a start or without an end timestamp is never in    *)
(* the session and never in a gap comparison, wherever it stands in the    *)
(* list: the summary is the one of the list without such facts; wins,      *)
(* losses, kills, deaths and assists are sums over the session, and        *)
(* games = wins + losses = the number of facts in the session.             *)
(***************************************************************************)
C19_UntimedFactsIgnored ==
    sessionOut # Null =>
        LET s == sessionOut.session
            sum == sessionOut.summary
            Both(x) == x.gameStart # Absent /\ x.gameEnd # Absent
            n == Len(s)
        IN  /\ \A i \in 1..n : Both(s[i])
            /\ sum = computeSessionByGap(SelectSeq(matchParts, Both), gapIn)
            /\ sum.wins = Cardinality({i \in 1..n : s[i].win})
            /\ sum.losses = Cardinality({i \in 1..n : ~s[i].win})
            /\ sum.kills = Total([i \in 1..n |-> s[i].kills], n)
            /\ sum.deaths = Total([i \in 1..n |-> s[i].deaths], n)
            /\ sum.assists = Total([i \in 1..n |-> s[i].assists], n)
            /\ sum.games = sum.wins + sum.losses
            /\ sum.games = n

\* a fact with a start and no end stands between two facts of one session
C19_Witness ==
    /\ sessionOut # Null
    /\ Len(matchParts) = 3
    /\ matchParts[2].gameStart = 3
    /\ matchParts[2].gameEnd = Absent
    /\ matchParts[1].gameStart = 1
    /\ matchParts[1].gameEnd # Absent
    /\ matchParts[3].gameStart = 0
    /\ matchParts[3].gameEnd # Absent
    /\ Len(sessionOut.session) = 2
    /\ sessionOut.summary.games = 2

(***************************************************************************)
(* C20.  A failed cycle retries nothing and leaves nothing behind: every   *)
(* cycle moves forward through its upstream calls, one answer at a time,   *)
(* and an error answer ends it in that very step with the error caught     *)
(* (refresh() never rejects, so the startup goes on even after a failed    *)
(* initial cycle); the timer stays armed and can fire whatever the cycles  *)
(* before did; and whenever a cycle whose calls all succeeded completes,   *)
(* also after failed ones, it writes its snapshot and clears the error, so *)
(* that a read then returns ok = true.                                     *)
(***************************************************************************)
PcRank(pc) ==
    CASE pc = "idle" -> 0
      [] pc = "ddragon" -> 1
      [] pc = "account" -> 2
      [] pc = "entries" -> 3
      [] pc = "matchIds" -> 4
      [] pc = "matches" -> 5
      [] pc = "done" -> 6

C20_TimerAndRecovery ==
    /\ (mainPc = "awaitRefresh" /\ cycles[1].pc = "done") => ENABLED MainResume
    /\ (timerArmed /\ started < MaxCycles) => ENABLED TimerTick
    /\ mainPc = "done" => timerArmed
    /\ \A c \in Cycles : cycles[c].pc = "done" => Count(log, c) = 1
    /\ (log # <<>> /\ Succeeded(LastDone)) =>
          /\ CACHE.error = Null
          /\ CACHE.data # Null
          /\ WidgetJson(CACHE).ok

C20_CycleSteps ==
    \A c \in Cycles :
        /\ cycles'[c].pc # cycles[c].pc => PcRank(cycles'[c].pc) > PcRank(cycles[c].pc)
        /\ (cycles[c].error = Null /\ cycles'[c].error # Null) =>
              /\ cycles'[c].pc = "done"
              /\ CACHE'.error = cycles'[c].error
              /\ log' = Append(log, c)
        /\ cycles[c].error # Null => cycles'[c].error = cycles[c].error
        /\ Publishes(c) =>
              /\ CACHE'.error = Null
              /\ View(CACHE'.data) = View(Snapshot(cycles[c].rank, Detailed(cycles'[c].ids), 0))
              /\ WidgetJson(CACHE').ok
        /\ timerArmed => timerArmed'

\* C20: in every state the timer and the recovery, on every step the cycles
C20_FailureLeavesNothingBehind ==
    []C20_TimerAndRecovery /\ [][C20_CycleSteps]_vars

\* the initial cycle and the second failed, the third published, and a read
\* after it returned ok = true
C20_Witness ==
    /\ Len(log) = 3
    /\ Failed(log[1])
    /\ Failed(log[2])
    /\ Succeeded(log[3])
    /\ log[1] = 1
    /\ CACHE.error = Null
    /\ response # Null
    /\ response.ok

(***************************************************************************)
(* C21.  The cycles write to the cache in the order in which they started: *)
(* once a cycle has written its snapshot or its error, no cycle that       *)
(* started earlier writes after it.                                        *)
(***************************************************************************)
C21_PublishInStartOrder ==
    \A i, j \in 1..Len(log) : i < j => log[i] < log[j]

(***************************************************************************)
(* C22.  Once the initial refresh has completed, and so whenever a reader  *)
(* can observe the cache, CACHE.error = null implies that CACHE.data is a  *)
(* snapshot, and CACHE.data = null implies that CACHE.error is set: the    *)
(* cache is never without a snapshot and without an error.                 *)
(***************************************************************************)
C22_SnapshotOrError ==
    (cycles[1].pc = "done" \/ listening \/ response # Null) =>
        /\ CACHE.error = Null => CACHE.data # Null
        /\ CACHE.data = Null => CACHE.error # Null
        /\ ~(CACHE.data = Null /\ CACHE.error = Null)
        /\ response # Null => (HasSnapshot(response) \/ response.error # Null)

\* two failed cycles and no snapshot yet, read by a client
C22_Witness ==
    /\ listening
    /\ Len(log) = 2
    /\ Failed(log[1])
    /\ Failed(log[2])
    /\ CACHE.data = Null
    /\ CACHE.error # Null
    /\ response # Null
    /\ ~HasSnapshot(response)
    /\ response.error = CACHE.error

====
